---------------------------- MODULE Spec2Model ----------------------------
(***************************************************************************)
(* Model of the nested-loop index iterator `getIndex`                      *)
(* (gc3apps/bf.uzh.ch/test/pymods/support/getIndexPy2.py).                 *)
(*                                                                         *)
(* A Python value that is either None or a string is a record              *)
(* [kind, val]; the `base` argument is a record [int, v] telling whether   *)
(* a bare integer or a sequence was passed.  Every getIndex object lives   *)
(* in the heap `objs`; the object at position 1 is the one the caller      *)
(* constructed, the others were obtained from an object by __iter__.       *)
(***************************************************************************)
EXTENDS Integers, Sequences, FiniteSets, TLC

\* ------------------------------------------------------------------ bounds
MaxDim     == 3      \* longest extents vector of the small grids
MaxExtent  == 4      \* largest extent of the small grids
MaxCells   == 12     \* largest number of cells of a small grid
MaxHandles == 2      \* objects obtained by __iter__ next to the constructed one
MaxAfter   == 1      \* next() calls made on an object after its first StopIteration
MaxHist    == 16     \* entries the emission history keeps

\* ------------------------------------------------------- program constants
IntBits == 16        \* dtype=int16 of loopIndex

\* ------------------------------------------------------------ Python values
None == [kind |-> "None", val |-> ""]
Str(s) == [kind |-> "str", val |-> s]
Arr(s) == [kind |-> "ndarray", val |-> s]   \* val is element 0 of the array

\* str.lower() on the tokens of the model
lower(s) ==
  CASE s = "LowerTr" -> "lowertr"
    [] s = "DIAGNOL" -> "diagnol"
    [] s = "NONE"    -> "none"
    [] OTHER         -> s

\* truth value of a None-or-string value (`elif restr:`)
truthy(x) == x.kind = "str" /\ x.val # ""

\* wrap-around of a value stored into an int16 array element
int16(x) == ((x + 2^(IntBits - 1)) % 2^IntBits) - 2^(IntBits - 1)

zeros(n) == [i \in 1..n |-> 0]

\* ---------------------------------------------------------------- getIndex
\* __init__(self, base, restr)
getIndex(base, restr) ==
  LET baseList == IF base.int THEN <<base.v>> ELSE base.v
  IN [ base      |-> baseList,
       loopIndex |-> zeros(Len(baseList)),
       iteration |-> 1,
       restr     |-> IF restr.kind = "ndarray" THEN Str(lower(restr.val))
                     ELSE IF truthy(restr) THEN Str(lower(restr.val))
                     ELSE restr ]

\* a clone that keeps the position of the object it is taken from
iterCopy(self) == [new |-> TRUE, obj |-> self]

\* `return self`: the object itself as its own iterator
iterSelf(self) == [new |-> FALSE, obj |-> self]

\* __iter__(self): a new object, built from self.base and self.restr
iter(self) ==
  [new |-> TRUE, obj |-> getIndex([int |-> FALSE, v |-> self.base], self.restr)]

\* the loop of increment(), entered at axis ix (axes are numbered from 1)
RECURSIVE incrementLoop(_, _, _)
incrementLoop(loopIndex, base, ix) ==
  IF ix < 1 THEN loopIndex
  ELSE IF loopIndex[ix] = base[ix] - 1
       THEN incrementLoop([loopIndex EXCEPT ![ix] = 0], base, ix - 1)
       ELSE [loopIndex EXCEPT ![ix] = int16(loopIndex[ix] + 1)]

\* an increment that also clears the restriction of the object
incrementClear(self) ==
  [self EXCEPT !.loopIndex = incrementLoop(self.loopIndex, self.base, Len(self.base)),
               !.restr = None]

increment(self) ==
  [self EXCEPT !.loopIndex = incrementLoop(self.loopIndex, self.base, Len(self.base))]

\* the test turned round: True where an adjacent pair rises
lowerTrRise(self) ==
  \E ix \in 1..(Len(self.base) - 1) : self.loopIndex[ix] < self.loopIndex[ix + 1]

lowerTr(self) ==
  ~ \E ix \in 1..(Len(self.base) - 1) : self.loopIndex[ix] < self.loopIndex[ix + 1]

diagnol(self) ==
  \E ix \in 1..(Len(self.base) - 1) : self.loopIndex[ix] # self.loopIndex[ix + 1]

\* `list(self.loopIndex) == [0] * len(self.base)`
allZero(self) == self.loopIndex = zeros(Len(self.base))

\* the counter test off by one
startedLate(self) == self.iteration > 2

\* `self.iteration > 1`
started(self) == self.iteration > 1

\* the restriction dispatch of next(): "skip", "keep" or "exit"
restriction(self) ==
  IF self.restr = Str("lowertr") THEN (IF lowerTr(self) THEN "skip" ELSE "keep")
  ELSE IF self.restr = Str("diagnol") THEN (IF diagnol(self) THEN "skip" ELSE "keep")
  ELSE IF self.restr = None \/ self.restr = Str("none") THEN "keep"
  ELSE "exit"

\* the exhaustion test passed over once more, so that the restriction is
\* consulted before it
exhaustedLate(self) == allZero(self) /\ self.iteration > 2

\* the exhaustion test of next(), made before the restriction is consulted
exhausted(self) == allZero(self) /\ started(self)

\* the array itself handed out: a list that is a view of loopIndex
tolistView(loopIndex) == [own |-> FALSE, val |-> loopIndex]

\* loopIndex.tolist(): a new list that owns a copy of the values
tolist(loopIndex) == [own |-> TRUE, val |-> loopIndex]

\* next(self): the object after the call, what the call returned or raised,
\* the number of increment() calls it made and the index vectors it took the
\* restriction branch (lines 64-72) on, in order
RECURSIVE next(_)
next(self) ==
  LET s1 == IF started(self) THEN increment(self) ELSE self
      n1 == IF started(self) THEN 1 ELSE 0
  IN IF exhausted(s1)
     THEN [self |-> s1, kind |-> "StopIteration", val |-> <<>>, own |-> TRUE,
           incs |-> n1, evals |-> <<>>]
     ELSE LET s2 == [s1 EXCEPT !.iteration = @ + 1]
              rs == restriction(s2)
          IN IF rs = "exit"
             THEN [self |-> s2, kind |-> "SystemExit", val |-> <<>>, own |-> TRUE,
                   incs |-> n1, evals |-> <<s2.loopIndex>>]
             ELSE IF rs = "skip"
             THEN LET r == next(s2)
                  IN [r EXCEPT !.incs = @ + n1, !.evals = <<s2.loopIndex>> \o @]
             ELSE LET l == tolist(s2.loopIndex)
                  IN [self |-> s2, kind |-> "list", val |-> l.val, own |-> l.own,
                      incs |-> n1, evals |-> <<s2.loopIndex>>]

\* ------------------------------------------------------------------- state
VARIABLES
  objs,      \* objs[o]: the getIndex object the caller's reference o denotes
  same,      \* same[o]: the first reference that denotes the object o denotes
  origin,    \* origin[o]: "constructed", or how far the object o was obtained from by
             \*   __iter__ had got at that call: "fresh", "advanced" or "exhausted"
  ret,       \* ret[o]: outcome of the last next() on o, with the index vectors that
             \*   call took the restriction branch on
  emitted,   \* emitted[o]: lists returned by o before its first StopIteration (first MaxHist)
  count,     \* count[o]: number of lists returned by o before its first StopIteration
  incs,      \* incs[o]: increment() calls of o up to its first StopIteration
  stops,     \* stops[o]: StopIteration signals raised by o
  after,     \* after[o]: next() calls made on o after its first StopIteration
  held,      \* held[o]: the first list o returned, which the caller keeps: whether it
             \*   owns its values, what the caller last saw in it, whether the caller
             \*   has changed it
  running,   \* FALSE once sys.exit() was called
  args,      \* GCellJunctionScript: self.params.args, the input files with their rows
  session,   \* jobnames of the tasks in self.session
  iters,     \* new_tasks: iterations already in the session, per parameter set
  yielded,   \* jobnames of the tasks new_tasks has yielded in this invocation
  path,      \* position of new_tasks in args
  lineno,    \* position of new_tasks in the rows of args[path]
  runs,      \* invocations of new_tasks that have returned
  pc         \* "idle", or "rows" while new_tasks is being consumed

enumerator == <<objs, same, origin, ret, emitted, count, incs, stops, after, held, running>>

script == <<args, session, iters, yielded, path, lineno, runs, pc>>

vars == <<objs, same, origin, ret, emitted, count, incs, stops, after, held, running,
          args, session, iters, yielded, path, lineno, runs, pc>>

NoCall == [kind |-> "none", val |-> <<>>, evals |-> <<>>]

NoList == [has |-> FALSE, own |-> TRUE, val |-> <<>>, changed |-> FALSE]

\* ------------------------------------------------------------------ inputs
RECURSIVE product(_)
product(s) == IF s = <<>> THEN 1 ELSE Head(s) * product(Tail(s))

\* the enumerators whose handles are set against each other
Bases == { [int |-> TRUE, v |-> 2], [int |-> FALSE, v |-> <<2, 2>>] }

Restrs == { None, Str("LowerTr"), Arr("DIAGNOL"), Str("bogus") }

\* the small grids: every extents vector within the bounds, every token
Vectors(n, lo, hi) == [1..n -> lo..hi]

SmallBases ==
  { b \in UNION { Vectors(n, 1, MaxExtent) : n \in 1..MaxDim } : product(b) <= MaxCells }

BaseArgs ==
  { [int |-> FALSE, v |-> b] : b \in SmallBases }
  \cup { [int |-> TRUE, v |-> n] : n \in 1..MaxExtent }

RestrArgs ==
  { None, Str(""), Str("none"), Str("NONE"), Str("lowertr"), Str("LowerTr"),
    Str("diagnol"), Str("bogus"), Arr("DIAGNOL"), Arr("lowertr") }

\* extents the small grids leave out: beyond the int16 range, zero, none at all
BigExtent == 2^(IntBits - 1) + 1

\* ----------------------------------------------------------------- actions
InitWith(bases, restrs) ==
  /\ \E b \in bases, r \in restrs : objs = <<getIndex(b, r)>>
  /\ same = <<1>>
  /\ origin = <<"constructed">>
  /\ ret = <<NoCall>>
  /\ emitted = << <<>> >>
  /\ count = <<0>>
  /\ incs = <<0>>
  /\ stops = <<0>>
  /\ after = <<0>>
  /\ held = <<NoList>>
  /\ running = TRUE
  /\ args = <<>> /\ session = {} /\ iters = <<>> /\ yielded = <<>>
  /\ path = 0 /\ lineno = 0 /\ runs = 0 /\ pc = "idle"

Init == InitWith(Bases, Restrs)

\* o.next()
NextCall(o) ==
  /\ running
  /\ after[o] < MaxAfter
  /\ \E r \in {next(objs[o])} :
     LET first == stops[o] = 0
     IN /\ objs' = [p \in DOMAIN objs |-> IF same[p] = same[o] THEN r.self ELSE objs[p]]
        /\ ret' = [ret EXCEPT ![o] = [kind |-> r.kind, val |-> r.val, evals |-> r.evals]]
        /\ emitted' = IF first /\ r.kind = "list" /\ Len(emitted[o]) < MaxHist
                      THEN [emitted EXCEPT ![o] = Append(@, r.val)]
                      ELSE emitted
        /\ count' = IF first /\ r.kind = "list"
                    THEN [count EXCEPT ![o] = @ + 1] ELSE count
        /\ incs' = IF first THEN [incs EXCEPT ![o] = @ + r.incs] ELSE incs
        /\ stops' = IF r.kind = "StopIteration"
                    THEN [stops EXCEPT ![o] = @ + 1] ELSE stops
        /\ after' = IF first THEN after ELSE [after EXCEPT ![o] = @ + 1]
        /\ held' = IF r.kind = "list" /\ ~ held[o].has
                   THEN [held EXCEPT ![o] = [has |-> TRUE, own |-> r.own,
                                             val |-> r.val, changed |-> FALSE]]
                   ELSE held
        /\ running' = (r.kind # "SystemExit")
  /\ UNCHANGED <<same, origin>>
  /\ UNCHANGED script

\* iter(o)
IterCall(o) ==
  /\ running
  /\ Len(objs) < 1 + MaxHandles
  /\ LET it == iter(objs[o])
     IN /\ objs' = Append(objs, it.obj)
        /\ same' = Append(same, IF it.new THEN Len(objs) + 1 ELSE same[o])
  /\ origin' = Append(origin, IF stops[o] > 0 THEN "exhausted"
                               ELSE IF ret[o].kind = "none" THEN "fresh"
                               ELSE "advanced")
  /\ ret' = Append(ret, NoCall)
  /\ emitted' = Append(emitted, <<>>)
  /\ count' = Append(count, 0)
  /\ incs' = Append(incs, 0)
  /\ stops' = Append(stops, 0)
  /\ after' = Append(after, 0)
  /\ held' = Append(held, NoList)
  /\ UNCHANGED running
  /\ UNCHANGED script

\* the caller stores v into item i of the list it keeps from o; a list that is
\* a view of loopIndex stores into the int16 array
ChangeCall(o, i, v) ==
  /\ running
  /\ held[o].has /\ ~ held[o].changed
  /\ i \in DOMAIN held[o].val
  /\ held' = [held EXCEPT ![o].val[i] = v, ![o].changed = TRUE]
  /\ objs' = IF held[o].own THEN objs
             ELSE [p \in DOMAIN objs |->
                     IF same[p] = same[o]
                     THEN [objs[p] EXCEPT !.loopIndex[i] = int16(v)] ELSE objs[p]]
  /\ UNCHANGED <<same, origin, ret, emitted, count, incs, stops, after, running>>
  /\ UNCHANGED script

Advance == \E o \in DOMAIN objs : NextCall(o)

Obtain == \E o \in DOMAIN objs : IterCall(o)

Next == Advance \/ Obtain

\* An enumerator and the handles obtained from it, advanced in any interleaving.
Spec == Init /\ [][Next]_vars

\* One object, advanced by its caller, over every small grid and every token.
InitGrids == InitWith(BaseArgs, RestrArgs)

SpecGrids == InitGrids /\ [][Advance]_vars

\* One object and a caller that changes the list it got from it.
Change == \E o \in DOMAIN objs, i \in 1..MaxDim, v \in 0..1 : ChangeCall(o, i, v)

NextCaller == Advance \/ Change

SpecCaller == InitGrids /\ [][NextCaller]_vars

\* One object, advanced by its caller, over the extents the small grids leave out.
InitWide ==
  \/ InitWith({[int |-> FALSE, v |-> <<BigExtent>>]}, {None, Str("diagnol")})
  \/ InitWith({[int |-> FALSE, v |-> <<>>], [int |-> FALSE, v |-> <<0, 1>>]}, {None})

SpecWide == InitWide /\ [][Advance]_vars

\* ---------------------------------------------------- GCellJunctionScript
MaxRep == 2     \* replicates asked for in a row: 0..MaxRep
MaxRows == 2    \* rows of an input file
MaxRuns == 2    \* invocations of new_tasks

SimNos == {1, 2}

\* a CSV field as the reader delivers it: text, which int() may or may not parse
Digits(n) == [kind |-> "digits", v |-> n]
Text == [kind |-> "text", v |-> 0]
Comment == [kind |-> "comment", v |-> 0]

\* int(field): the number, or ValueError
int(field) == [ok |-> field.kind = "digits", v |-> field.v]

\* 'tricellular_junction_%d' % sim_no
basename(sim_no) == [prefix |-> "tricellular_junction_", sim_no |-> sim_no]

\* '%s#%d' % (basename, iter)
jobname(name, no) == [name |-> name, instance |-> no]

\* jobname.split('#'), the instance still as text
split(job) == <<job.name, Digits(job.instance)>>

\* the session not consulted: no iteration counted
itersNone(tasks) == [name \in {} |-> 0]

\* the loop over self.session: highest instance per parameter set
itersOf(tasks) ==
  [name \in { split(t)[1] : t \in tasks } |->
     CHOOSE m \in { int(split(t)[2]).v : t \in { u \in tasks : split(u)[1] = name } } :
       \A t \in { u \in tasks : split(u)[1] = name } : int(split(t)[2]).v <= m]

\* iters[name] of the defaultdict(int)
lookup(d, name) == IF name \in DOMAIN d THEN d[name] ELSE 0

\* range(lo, hi)
range(lo, hi) == [k \in 1..(hi - lo) |-> lo + k - 1]

\* the body of the loop over the rows: the jobnames of the tasks one row yields
rowTasks(d, row) ==
  IF Len(row) = 0 \/ row[1].kind = "comment" THEN <<>>
  ELSE IF Len(row) # 2 THEN <<>>
  ELSE IF ~ int(row[1]).ok \/ ~ int(row[2]).ok THEN <<>>
  ELSE LET iterno == int(row[1]).v
           sim_no == int(row[2]).v
           name   == basename(sim_no)
       IN IF iterno > lookup(d, name)
          THEN LET r == range(lookup(d, name) + 1, iterno + 1)
               IN [k \in DOMAIN r |-> jobname(name, r[k])]
          ELSE <<>>

ValidRows == { <<Digits(R), Digits(S)>> : R \in 0..MaxRep, S \in SimNos }

Rows == ValidRows \cup { <<>>, <<Comment, Digits(1)>>, <<Digits(1)>>, <<Text, Digits(1)>> }

Files == UNION { [1..n -> Rows] : n \in 0..MaxRows }

Csv(rows) == [csv |-> TRUE, rows |-> rows]

\* one CSV file; two CSV files of one row each; a file that is not CSV before a CSV file
Args ==
  { <<Csv(f)>> : f \in Files }
    \cup { <<Csv(<<r1>>), Csv(<<r2>>)>> : r1, r2 \in ValidRows }
    \cup { <<[csv |-> FALSE, rows |-> <<r1>>], Csv(<<r2>>)>> : r1, r2 \in ValidRows }

\* sessions of earlier invocations: instances 1..m of each parameter set
Sessions ==
  { { jobname(basename(S), k) : S \in SimNos, k \in 1..MaxRep } \cap
      { j \in [name : { basename(S) : S \in SimNos }, instance : 1..MaxRep] :
          j.instance <= m[j.name.sim_no] } :
    m \in [SimNos -> 0..(MaxRep - 1)] }

InitTasks ==
  /\ objs = <<>> /\ same = <<>> /\ origin = <<>> /\ ret = <<>> /\ emitted = <<>>
  /\ count = <<>> /\ incs = <<>> /\ stops = <<>> /\ after = <<>> /\ held = <<>>
  /\ running = TRUE
  /\ args \in Args
  /\ session \in Sessions
  /\ iters = <<>> /\ yielded = <<>>
  /\ path = 0 /\ lineno = 0 /\ runs = 0 /\ pc = "idle"

\* new_tasks is invoked and runs up to the loop over the input files
NewTasks ==
  /\ pc = "idle" /\ runs < MaxRuns
  /\ iters' = itersOf(session)
  /\ yielded' = <<>>
  /\ path' = 1 /\ lineno' = 1
  /\ pc' = "rows"
  /\ UNCHANGED <<args, session, runs>>
  /\ UNCHANGED enumerator

\* one row of the CSV file args[path] is read and its tasks are yielded
ReadRow ==
  /\ pc = "rows" /\ path <= Len(args)
  /\ args[path].csv /\ lineno <= Len(args[path].rows)
  /\ yielded' = yielded \o rowTasks(iters, args[path].rows[lineno])
  /\ lineno' = lineno + 1
  /\ UNCHANGED <<args, session, iters, path, runs, pc>>
  /\ UNCHANGED enumerator

\* the rows of args[path] are used up, or args[path] is no CSV file
NextPath ==
  /\ pc = "rows" /\ path <= Len(args)
  /\ ~ args[path].csv \/ lineno > Len(args[path].rows)
  /\ path' = path + 1 /\ lineno' = 1
  /\ UNCHANGED <<args, session, iters, yielded, runs, pc>>
  /\ UNCHANGED enumerator

\* new_tasks returns; the script adds the tasks it yielded to the session
Return ==
  /\ pc = "rows" /\ path > Len(args)
  /\ session' = session \cup { yielded[k] : k \in DOMAIN yielded }
  /\ runs' = runs + 1
  /\ pc' = "idle"
  /\ UNCHANGED <<args, iters, yielded, path, lineno>>
  /\ UNCHANGED enumerator

NextTasks == NewTasks \/ ReadRow \/ NextPath \/ Return

SpecTasks == InitTasks /\ [][NextTasks]_vars

\* ------------------------------------------------ vocabulary of the claims
Range(s) == { s[i] : i \in DOMAIN s }

Positive(b) == Len(b) >= 1 /\ \A i \in DOMAIN b : b[i] >= 1

Unrestricted(self) == self.restr \in {None, Str("none")}

KnownMode(self) ==
  self.restr \in {None, Str("none"), Str("lowertr"), Str("diagnol")}

InGrid(t, b) == Len(t) = Len(b) /\ \A i \in DOMAIN b : 0 <= t[i] /\ t[i] < b[i]

MaxOf(b) == CHOOSE m \in Range(b) : \A x \in Range(b) : x <= m

MinOf(b) == CHOOSE m \in Range(b) : \A x \in Range(b) : m <= x

Grid(b) == { t \in [1..Len(b) -> 0..(MaxOf(b) - 1)] : InGrid(t, b) }

NoDup(s) == \A i, j \in DOMAIN s : i < j => s[i] # s[j]

\* the history of o holds everything o returned
Complete(o) == Len(emitted[o]) = count[o]

\* mixed-radix successor of t in the grid b, computed in unbounded integers
RECURSIVE succFrom(_, _, _)
succFrom(t, b, i) ==
  IF i < 1 THEN t
  ELSE IF t[i] + 1 = b[i] THEN succFrom([t EXCEPT ![i] = 0], b, i - 1)
  ELSE [t EXCEPT ![i] = t[i] + 1]

succ(t, b) == succFrom(t, b, Len(b))

LexLess(s, t) ==
  \E i \in DOMAIN s : s[i] < t[i] /\ \A j \in 1..(i - 1) : s[j] = t[j]

diag(n, k) == [i \in 1..n |-> k]

NonIncreasing(t) == \A i \in 1..(Len(t) - 1) : t[i] >= t[i + 1]

IsPrefix(s, t) == Len(s) <= Len(t) /\ SubSeq(t, 1, Len(s)) = s

\* what an object with the extents and restriction of self returns, call after
\* call, from the all-zero index and the initial counter to its first
\* StopIteration (or exit); r is the outcome of the call just made
RECURSIVE drain(_, _)
drain(r, out) ==
  IF r.kind = "list" THEN drain(next(r.self), Append(out, r.val)) ELSE out

FullSequence(self) ==
  drain(next([self EXCEPT !.loopIndex = zeros(Len(self.base)), !.iteration = 1]), <<>>)

\* the tuples of the grid b in odometer order
RECURSIVE odometerFrom(_, _, _)
odometerFrom(t, b, n) ==
  IF n <= 1 THEN <<t>> ELSE <<t>> \o odometerFrom(succ(t, b), b, n - 1)

Odometer(b) == odometerFrom(zeros(Len(b)), b, product(b))

Rises(t) == \E i \in 1..(Len(t) - 1) : t[i] < t[i + 1]

\* ------------------------------------------------------------------ claims

\* C1: with positive extents and no restriction a fresh handle emits, before
\* its first StopIteration, every tuple of the Cartesian product of
\* [0, extent_i) exactly once; the number of emitted tuples is the product
\* of the extents.
C1_Claim ==
  \A o \in DOMAIN objs :
    (Positive(objs[o].base) /\ Unrestricted(objs[o])) =>
      /\ (stops[o] = 0 /\ ret[o].kind = "list") => InGrid(ret[o].val, objs[o].base)
      /\ NoDup(emitted[o])
      /\ stops[o] >= 1 =>
           /\ count[o] = product(objs[o].base)
           /\ Complete(o) => Range(emitted[o]) = Grid(objs[o].base)

\* C2: with no restriction the tuples come in odometer order: the first one
\* is all-zero, every later one is the mixed-radix successor of the one
\* emitted before it and lexicographically greater.
C2_Step ==
  \A o \in DOMAIN objs :
    ( /\ Positive(objs[o].base) /\ Unrestricted(objs[o])
      /\ stops'[o] = 0 /\ count'[o] # count[o] ) =>
      IF count[o] = 0
      THEN ret'[o].val = zeros(Len(objs[o].base))
      ELSE /\ ret'[o].val = succ(ret[o].val, objs[o].base)
           /\ LexLess(ret[o].val, ret'[o].val)

C2_Claim == [][C2_Step]_vars

\* C3: under 'diagnol', with positive extents, the emitted sequence is
\* exactly [k,...,k] for k = 0 .. min(extents)-1, in increasing k.
C3_Claim ==
  \A o \in DOMAIN objs :
    (Positive(objs[o].base) /\ objs[o].restr = Str("diagnol")) =>
      /\ (stops[o] = 0 /\ ret[o].kind = "list") =>
           ret[o].val = diag(Len(objs[o].base), count[o] - 1)
      /\ Complete(o) =>
           emitted[o] = [k \in 1..count[o] |-> diag(Len(objs[o].base), k - 1)]
      /\ count[o] <= MinOf(objs[o].base)
      /\ stops[o] >= 1 => count[o] = MinOf(objs[o].base)

\* C4: under 'lowertr' every emitted tuple is non-increasing from the first
\* to the last axis, and every in-range tuple of that shape is emitted.
C4_Claim ==
  \A o \in DOMAIN objs :
    (Positive(objs[o].base) /\ objs[o].restr = Str("lowertr")) =>
      /\ \A t \in Range(emitted[o]) : NonIncreasing(t)
      /\ (stops[o] >= 1 /\ Complete(o)) =>
           \A t \in Grid(objs[o].base) : NonIncreasing(t) => t \in Range(emitted[o])

\* C5: in every restriction mode the all-zero tuple is the first tuple a
\* fresh handle emits and it is emitted exactly once: a later return of the
\* odometer to all-zero raises StopIteration instead.
C5_Claim ==
  \A o \in DOMAIN objs :
    KnownMode(objs[o]) =>
      /\ ret[o].kind # "none" =>
           (count[o] >= 1 /\ emitted[o][1] = zeros(Len(objs[o].base)))
      /\ (ret[o].kind = "list" /\ ret[o].val = zeros(Len(objs[o].base))) =>
           (stops[o] = 0 /\ count[o] = 1)

\* C6: with positive extents and a known mode at most product-of-extents
\* tuples are emitted and the first StopIteration comes after at most
\* product-of-extents calls of increment().
C6_Claim ==
  \A o \in DOMAIN objs :
    (Positive(objs[o].base) /\ KnownMode(objs[o])) =>
      /\ count[o] <= product(objs[o].base)
      /\ incs[o] <= product(objs[o].base)

\* C8: no getIndex object exists for a non-positive extent, an empty extents
\* sequence or an unknown restriction token, so no next() call is ever made
\* on one and no tuple comes out of one.
InvalidConfiguration(self) == ~ Positive(self.base) \/ ~ KnownMode(self)

C8_Claim ==
  \A o \in DOMAIN objs : InvalidConfiguration(objs[o]) => ret[o].kind = "none"

\* C9: with positive extents every component of loopIndex is within
\* 0 <= loopIndex[i] < base[i] in every reachable state.
C9_Claim ==
  \A o \in DOMAIN objs :
    Positive(objs[o].base) => InGrid(objs[o].loopIndex, objs[o].base)

\* C7: an object obtained by __iter__ has the extents and restriction of the
\* enumerator, starts with an all-zero index and the initial counter, and
\* returns the full sequence of those extents and that restriction, whatever
\* was obtained, advanced or exhausted before; any two such objects that
\* reached StopIteration returned the same sequence.
C7_FreshHandle ==
  \A h \in DOMAIN objs :
    origin[h] # "constructed" =>
      /\ objs[h].base = objs[1].base
      /\ objs[h].restr = objs[1].restr
      /\ ret[h].kind = "none" =>
           (objs[h].loopIndex = zeros(Len(objs[1].base)) /\ objs[h].iteration = 1)
      /\ Complete(h)
      /\ \A full \in {FullSequence(objs[1])} :
           /\ IsPrefix(emitted[h], full)
           /\ stops[h] >= 1 => emitted[h] = full
      /\ \A g \in DOMAIN objs :
           (origin[g] # "constructed" /\ stops[g] >= 1 /\ stops[h] >= 1) =>
             emitted[g] = emitted[h]

\* two handles, one obtained from an exhausted object and one from an
\* advanced one, have both run to StopIteration over a grid of four cells
C7_Witness ==
  \E g, h \in DOMAIN objs :
    /\ g # h
    /\ origin[g] = "exhausted" /\ origin[h] = "advanced"
    /\ stops[g] >= 1 /\ stops[h] >= 1
    /\ count[h] >= 4

\* C10: an object never returns the same tuple twice between its creation
\* and its first StopIteration, whatever the extents and the restriction.
C10_NoRepeat ==
  \A o \in DOMAIN objs : Complete(o) /\ NoDup(emitted[o])

\* an object has run through a grid of at least eight cells to StopIteration
C10_Witness ==
  \E o \in DOMAIN objs :
    stops[o] >= 1 /\ count[o] >= 8 /\ Len(objs[o].base) >= 2

\* C11: a list returned by next() is a copy of loopIndex: it holds what the
\* caller last saw in it across every later advance, and a change the caller
\* makes to it changes neither loopIndex nor any tuple returned later.
C11_Copy ==
  \A o \in DOMAIN objs :
    held[o].has =>
      /\ (IF held[o].own THEN held[o].val ELSE objs[o].loopIndex) =
           (IF held[o].changed THEN held[o].val ELSE emitted[o][1])
      /\ ret[o].kind = "list" => objs[o].loopIndex = ret[o].val
      /\ Complete(o)
      /\ \A full \in {FullSequence(objs[o])} :
           /\ IsPrefix(emitted[o], full)
           /\ stops[o] >= 1 => emitted[o] = full

\* the caller changed the first list it got and the object then ran on to
\* StopIteration, returning at least three lists
C11_Witness ==
  \E o \in DOMAIN objs :
    /\ held[o].changed /\ held[o].val # emitted[o][1]
    /\ stops[o] >= 1 /\ count[o] >= 3

\* C12: objects obtained from one enumerator share no state: advanced in any
\* interleaving, each returns the sequence it returns when advanced alone, an
\* object no next() was called on still has the all-zero index and the
\* initial counter, and the index and the counter of an object are those its
\* own next() calls left (the tuple it last returned, two more than its
\* increment() calls).
C12_NoSharing ==
  \A o \in DOMAIN objs :
    /\ ret[o].kind = "none" =>
         (objs[o].loopIndex = zeros(Len(objs[o].base)) /\ objs[o].iteration = 1)
    /\ ret[o].kind = "list" => objs[o].loopIndex = ret[o].val
    /\ (ret[o].kind # "none" /\ stops[o] = 0) => objs[o].iteration = incs[o] + 2
    /\ Complete(o)
    /\ \A full \in {FullSequence(objs[o])} :
         /\ IsPrefix(emitted[o], full)
         /\ stops[o] >= 1 => emitted[o] = full

\* two handles of an enumerator that was never advanced are both part-way
\* through the sequence, at different positions
C12_Witness ==
  \E g, h \in DOMAIN objs :
    /\ origin[g] # "constructed" /\ origin[h] # "constructed"
    /\ ret[1].kind = "none"
    /\ stops[g] = 0 /\ stops[h] = 0
    /\ count[g] >= 1 /\ count[h] > count[g]

\* C13: under 'lowertr' a tuple is skipped exactly when all its adjacent
\* pairs are non-increasing; the tuples returned are, in odometer order,
\* exactly those of the grid with an adjacent pair index[i] < index[i+1];
\* with one dimension everything is skipped and nothing is returned.
C13_Polarity ==
  \A o \in DOMAIN objs :
    objs[o].restr = Str("lowertr") =>
      /\ \A k \in DOMAIN ret[o].evals :
           (k < Len(ret[o].evals) \/ ret[o].kind = "StopIteration") =>
             NonIncreasing(ret[o].evals[k])
      /\ ret[o].kind = "list" =>
           (Rises(ret[o].val) /\ ret[o].evals[Len(ret[o].evals)] = ret[o].val)
      /\ Complete(o)
      /\ IsPrefix(emitted[o], SelectSeq(Odometer(objs[o].base), Rises))
      /\ stops[o] >= 1 => emitted[o] = SelectSeq(Odometer(objs[o].base), Rises)
      /\ (Len(objs[o].base) = 1 /\ ret[o].kind # "none") =>
           (count[o] = 0 /\ stops[o] >= 1)

\* a 'lowertr' object over three axes ran to StopIteration and returned at
\* least four tuples, skipping some on the way
C13_Witness ==
  \E o \in DOMAIN objs :
    /\ objs[o].restr = Str("lowertr") /\ Len(objs[o].base) = 3
    /\ stops[o] = 1 /\ after[o] = 0 /\ count[o] >= 4
    /\ Len(ret[o].evals) >= 2

\* C14: at every step, skip steps included, the object tests for exhaustion
\* before it consults the restriction: the restriction is consulted on the
\* all-zero vector only at the very first step of the first next(), and a
\* StopIteration leaves the index all-zero without having consulted it,
\* under 'diagnol' too.
C14_ExhaustionFirst ==
  \A o \in DOMAIN objs :
    /\ \A k \in DOMAIN ret[o].evals :
         ret[o].evals[k] = zeros(Len(objs[o].base)) =>
           (k = 1 /\ objs[o].iteration = Len(ret[o].evals) + 1)
    /\ ret[o].kind = "StopIteration" =>
         (allZero(objs[o]) /\ objs[o].iteration >= 2)
    /\ (objs[o].restr = Str("diagnol") /\ stops[o] >= 1 /\ after[o] = 0) =>
         \A k \in DOMAIN emitted[o] :
           emitted[o][k] = zeros(Len(objs[o].base)) => k = 1

\* a 'diagnol' object returned two tuples and then, in one next(), skipped
\* tuples and came round to the all-zero vector, raising StopIteration
C14_Witness ==
  \E o \in DOMAIN objs :
    /\ objs[o].restr = Str("diagnol")
    /\ ret[o].kind = "StopIteration" /\ Len(ret[o].evals) >= 1
    /\ stops[o] = 1 /\ after[o] = 0 /\ count[o] >= 2

\* C15: an object whose restriction is none of 'lowertr', 'diagnol', 'none',
\* None or the empty token exits as unknown restriction in its first next()
\* and returns no tuple; with one of these five, the empty token included,
\* no next() exits as unknown restriction.
Accepted == {Str("lowertr"), Str("diagnol"), Str("none"), None, Str("")}

C15_Claim ==
  \A o \in DOMAIN objs :
    /\ objs[o].restr \in Accepted => ret[o].kind # "SystemExit"
    /\ (objs[o].restr \notin Accepted /\ ret[o].kind # "none") =>
         (ret[o].kind = "SystemExit" /\ count[o] = 0 /\ objs[o].iteration = 2)

\* C16: StopIteration is final: every next() made on an object after its
\* first StopIteration raises StopIteration again and returns no tuple, and
\* leaves the index all-zero.
C16_Claim ==
  \A o \in DOMAIN objs :
    after[o] >= 1 => (ret[o].kind = "StopIteration" /\ allZero(objs[o]))

\* C17: no step changes the extents or the restriction of an object: a
\* next(), with its skips or its StopIteration, changes only loopIndex and
\* iteration, and __iter__ leaves the object it is called on as it was and
\* gives the new object the same extents and restriction.
C17_Frame ==
  [][ /\ \A o \in DOMAIN objs :
           /\ objs'[o].base = objs[o].base
           /\ objs'[o].restr = objs[o].restr
      /\ Len(objs') > Len(objs) =>
           /\ \A o \in DOMAIN objs : objs'[o] = objs[o]
           /\ \E o \in DOMAIN objs :
                /\ objs'[Len(objs')].base = objs[o].base
                /\ objs'[Len(objs')].restr = objs[o].restr ]_vars

\* a 'lowertr' enumerator skipped tuples, returned one and raised
\* StopIteration, and a handle obtained from it returned a tuple as well
C17_Witness ==
  /\ objs[1].restr = Str("lowertr")
  /\ stops[1] >= 1 /\ count[1] >= 1 /\ incs[1] >= 3
  /\ Len(objs) >= 2 /\ ret[2].kind = "list"

\* C18: loopIndex is an int16 array, and with positive extents, an extent
\* above 32768 included, no increment wraps: every vector a next() comes to
\* is the mixed-radix successor, in unbounded integers, of the one before,
\* so that no component is ever negative.
C18_Claim ==
  [][ \A o \in DOMAIN objs :
        (Positive(objs[o].base) /\ started(objs[o]) /\
         objs'[o].iteration > objs[o].iteration) =>
          /\ ret'[o].evals[1] = succ(objs[o].loopIndex, objs[o].base)
          /\ \A k \in 2..Len(ret'[o].evals) :
               ret'[o].evals[k] = succ(ret'[o].evals[k - 1], objs[o].base)
          /\ \A k \in DOMAIN ret'[o].evals :
               \A i \in DOMAIN ret'[o].evals[k] : ret'[o].evals[k][i] >= 0 ]_vars

\* highest instance of the parameter set S among the jobnames in tasks, 0 if none
highest(tasks, S) ==
  IF \E j \in tasks : j.name = basename(S)
  THEN CHOOSE m \in { j.instance : j \in tasks } :
         /\ jobname(basename(S), m) \in tasks
         /\ \A j \in tasks : j.name = basename(S) => j.instance <= m
  ELSE 0

IsValid(row) == Len(row) = 2 /\ row[1].kind = "digits" /\ row[2].kind = "digits"

\* C19: a valid row (R, S) yields exactly the tasks 'tricellular_junction_S#k'
\* for k = m+1 .. R, where m is the highest instance of S in the session (0 if
\* none), and any other row yields none; once the yielded tasks are in the
\* session, a further invocation with the same input yields nothing.
C19_Rows ==
  [][ /\ (pc = "rows" /\ lineno' = lineno + 1) =>
           LET row == args[path].rows[lineno]
           IN IF IsValid(row)
              THEN LET R == row[1].v
                       S == row[2].v
                       m == highest(session, S)
                   IN /\ Len(yielded') = Len(yielded) + (IF R > m THEN R - m ELSE 0)
                      /\ \A k \in 1..(R - m) :
                           yielded'[Len(yielded) + k] = jobname(basename(S), m + k)
                      /\ \A k \in 1..Len(yielded) : yielded'[k] = yielded[k]
              ELSE yielded' = yielded
      /\ runs >= 1 => yielded' = <<>> ]_vars

\* new_tasks was invoked a second time on input whose first invocation had
\* put new tasks into the session, and read rows without yielding
C19_Witness ==
  /\ runs = 1 /\ pc = "rows" /\ path > Len(args)
  /\ yielded = <<>>
  /\ \E j \in session : j.instance = MaxRep
  /\ \E f \in DOMAIN args : \E l \in DOMAIN args[f].rows :
       args[f].csv /\ IsValid(args[f].rows[l]) /\ args[f].rows[l][1].v = MaxRep

\* C20: in one invocation of new_tasks no two yielded tasks have the same
\* jobname and no yielded jobname is one of the session, also when a SimNo
\* occurs in several rows or files.
C20_Claim ==
  pc = "rows" =>
    /\ NoDup(yielded)
    /\ \A k \in DOMAIN yielded : yielded[k] \notin session

=============================================================================
